---- MODULE Spec2Model ----
(***************************************************************************)
(* Model of the in-memory poll store of src/index.js: the `polls` object,  *)
(* the identifier generator and the seven route handlers.  Every handler   *)
(* is synchronous JavaScript (no await, no callback between its reads and  *)
(* its writes), so one handler run is one step.                            *)
(***************************************************************************)
EXTENDS Integers, Sequences, FiniteSets, TLC

VARIABLES
    polls,         \* own properties of the `polls` object: pollId -> poll record
    objectStatus,  \* own `status` property of the objects `polls` inherits from
    now,           \* Date.now(), in milliseconds
    res,           \* the response the last handler sent
    inflight,      \* requests received whose handler has not run yet
    replies        \* the handled requests with their status codes, in handling order

vars == <<polls, objectStatus, now, res, inflight, replies>>

----------------------------------------------------------------------------
(* Bounds *)

MaxTime == 2        \* the clock runs over 1..MaxTime
MaxPolls == 2       \* polls held in the store at once
MaxRequests == 3    \* requests received in the concurrent specification

----------------------------------------------------------------------------
(* JavaScript values of the request bodies *)

\* A string is the sequence of its characters; " " is the whitespace character.
Str(s) == [type |-> "string", chars |-> s]
Undefined == [type |-> "undefined", chars |-> <<>>]
\* A non-zero number where a string is expected (truthy, has no .trim method).
NumberValue == [type |-> "number", chars |-> <<>>]

IsWhitespace(c) == c = " "

RECURSIVE TrimStart(_)
TrimStart(s) ==
    IF s # <<>> /\ IsWhitespace(Head(s)) THEN TrimStart(Tail(s)) ELSE s

RECURSIVE TrimEnd(_)
TrimEnd(s) ==
    IF s # <<>> /\ IsWhitespace(s[Len(s)])
    THEN TrimEnd(SubSeq(s, 1, Len(s) - 1))
    ELSE s

\* String.prototype.trim
Trim(s) == TrimEnd(TrimStart(s))

\* JavaScript truthiness of a request value: "" and undefined are falsy.
Truthy(v) ==
    CASE v.type = "undefined" -> FALSE
      [] v.type = "string" -> v.chars # <<>>
      [] OTHER -> TRUE

\* optionIndex: a JSON number is kept in halves (twice = 2 * value), so that 0.5
\* and 1.5 are values; anything else is a non-number.
Num(twice) == [type |-> "number", twice |-> twice]
NotANumber == [type |-> "string", twice |-> 0]
IsInteger(optionIndex) == optionIndex.twice % 2 = 0

----------------------------------------------------------------------------
(* Inputs the model draws from *)

RandomSuffixes == {"a", "b"}
ArrayOf(items) == [isArray |-> TRUE, items |-> items]
NotAnArray == [isArray |-> FALSE, items |-> <<>>]
CreateBody(question, options) == [question |-> question, options |-> options]
ValidOptions == ArrayOf(<<Str(<<" ", "A">>), Str(<<>>), Str(<<"B">>)>>)
\* Request bodies of Create: each validation branch, a throwing one, valid ones.
CreateInputs ==
    { CreateBody(Undefined, ValidOptions),
      CreateBody(Str(<<" ">>), ValidOptions),
      CreateBody(NumberValue, ValidOptions),
      CreateBody(Str(<<"Q">>), NotAnArray),
      CreateBody(Str(<<"Q">>), ArrayOf(<<Str(<<"A">>)>>)),
      CreateBody(Str(<<"Q">>), ArrayOf(<<Str(<<"A">>), Str(<<" ">>)>>)),
      CreateBody(Str(<<"Q">>), ArrayOf(<<Str(<<"A">>), NumberValue>>)),
      CreateBody(Str(<<"Q">>), ValidOptions),
      CreateBody(Str(<<" ", "Q", " ">>), ValidOptions) }
\* -1, 0, 0.5, 1, 2 and a non-number
OptionIndexInputs == { Num(-2), Num(0), Num(1), Num(2), Num(4), NotANumber }
VoterIdInputs == { "alice", "" }   \* "" stands for an absent or empty voterId
IpInputs == { "10.0.0.1" }

\* A property name every object inherits through its prototype chain.
ProtoKeys == { "constructor" }
UnknownIds == { "nosuch" }

----------------------------------------------------------------------------
(* The store and its helpers *)

\* The status code and, of the JSON body, the `message` and `pollId` fields
\* ("undefined" for a field the body does not have).
Response(status, message, pollId) ==
    [status |-> status, message |-> message, pollId |-> pollId]
NoResponse == Response(0, "", "undefined")

Outcome(P, O, r) == [polls |-> P, objectStatus |-> O, res |-> r]

\* 'poll_' + Date.now() + '_' + Math.random().toString(36).substr(2, 9)
generatePollId(t, random) == "poll_" \o ToString(t) \o "_" \o random

GeneratedIds == { generatePollId(t, random) : t \in 1..MaxTime, random \in RandomSuffixes }
\* Every string a client can put in the :pollId segment of the path.
PathIds == GeneratedIds \cup ProtoKeys \cup UnknownIds

\* What the expression polls[pollId] evaluates to: an own property (a poll), a
\* property found on the prototype chain of the plain object, or undefined.
Lookup(P, pollId) ==
    IF pollId \in DOMAIN P THEN "own"
    ELSE IF pollId \in ProtoKeys THEN "inherited"
    ELSE "undefined"

getPollOrError(P, pollId) ==
    IF Lookup(P, pollId) = "undefined"
    THEN [error |-> TRUE, message |-> "Poll not found", poll |-> "undefined"]
    ELSE [error |-> FALSE, message |-> "", poll |-> Lookup(P, pollId)]

\* poll.status of the object polls[pollId]: a poll's field, or the property the
\* inherited object (the Object constructor) has been given.
StatusOf(P, O, pollId) ==
    IF pollId \in DOMAIN P THEN P[pollId].status
    ELSE O[pollId]

RECURSIVE Sum(_)
\* votes.reduce((a, b) => a + b, 0)
Sum(items) == IF items = <<>> THEN 0 ELSE Head(items) + Sum(Tail(items))

\* The filter left out: every element is kept.
FilterNonEmpty_KeepAll(items) == [i \in 1..Len(items) |-> items[i].chars]

\* options.filter(opt => opt.trim()): the elements whose trimmed text is non-empty
\* are kept, as they came in.
RECURSIVE FilterNonEmpty(_)
FilterNonEmpty(items) ==
    IF items = <<>> THEN <<>>
    ELSE IF Trim(Head(items).chars) # <<>>
         THEN <<Head(items).chars>> \o FilterNonEmpty(Tail(items))
         ELSE FilterNonEmpty(Tail(items))

\* opt.trim() throws a TypeError for an element that is not a string.
TrimThrows(items) == \E i \in 1..Len(items) : items[i].type # "string"

\* The vote counts sized for two options, whatever the number of options.
NewPoll_TwoCounts(pollId, question, cleanedOptions, t) ==
    [ id |-> pollId,
      question |-> Trim(question.chars),
      options |-> cleanedOptions,
      votes |-> [items |-> <<0, 0>>, nan |-> {}],
      status |-> "active",
      createdAt |-> t,
      voters |-> {} ]

NewPoll(pollId, question, cleanedOptions, t) ==
    [ id |-> pollId,
      question |-> Trim(question.chars),
      options |-> cleanedOptions,
      votes |-> [items |-> [i \in 1..Len(cleanedOptions) |-> 0], nan |-> {}],
      status |-> "active",
      createdAt |-> t,
      voters |-> {} ]

\* polls[pollId] = poll
Put(P, pollId, poll) ==
    [id \in DOMAIN P \cup {pollId} |-> IF id = pollId THEN poll ELSE P[id]]

\* Every poll deleted, not only the one named.
Remove_All(P, pollId) == [id \in {} |-> P[id]]

\* delete polls[pollId]: removes an own property, and nothing else
Remove(P, pollId) == [id \in DOMAIN P \ {pollId} |-> P[id]]

----------------------------------------------------------------------------
(* The route handlers: each gives the store after the request and the response *)

ServerError == Response(500, "Server error", "undefined")
NotFound == Response(404, "Poll not found", "undefined")

\* POST /api/polls/create
CreateHandler(P, O, question, options, t, random) ==
    IF ~Truthy(question) THEN Outcome(P, O, Response(400, "Question is required", "undefined"))
    ELSE IF question.type # "string" THEN Outcome(P, O, ServerError)
    ELSE IF Trim(question.chars) = <<>>
    THEN Outcome(P, O, Response(400, "Question is required", "undefined"))
    ELSE IF ~options.isArray \/ Len(options.items) < 2
    THEN Outcome(P, O, Response(400, "At least 2 options are required", "undefined"))
    ELSE IF TrimThrows(options.items) THEN Outcome(P, O, ServerError)
    ELSE IF Len(FilterNonEmpty(options.items)) < 2
    THEN Outcome(P, O, Response(400, "At least 2 non-empty options are required", "undefined"))
    ELSE LET pollId == generatePollId(t, random)
             poll == NewPoll(pollId, question, FilterNonEmpty(options.items), t)
         IN  Outcome(Put(P, pollId, poll), O, Response(201, "Poll created successfully", pollId))

\* The poll projection with the counts added.
GetBody_WithVotes(P, O, pollId) ==
    IF pollId \in DOMAIN P
    THEN [id |-> P[pollId].id, question |-> P[pollId].question,
          options |-> P[pollId].options, status |-> P[pollId].status,
          createdAt |-> P[pollId].createdAt, votes |-> P[pollId].votes.items]
    ELSE [id |-> "undefined", question |-> <<>>, options |-> <<>>,
          status |-> O[pollId], createdAt |-> 0, votes |-> <<>>]

\* The `poll` object of Get's 200 response, for an id getPollOrError finds. On an
\* inherited object the fields read are undefined (empty here) but status.
GetBody(P, O, pollId) ==
    IF pollId \in DOMAIN P
    THEN [id |-> P[pollId].id, question |-> P[pollId].question,
          options |-> P[pollId].options, status |-> P[pollId].status,
          createdAt |-> P[pollId].createdAt]
    ELSE [id |-> "undefined", question |-> <<>>, options |-> <<>>,
          status |-> O[pollId], createdAt |-> 0]

\* The `poll` object of Create's 201 response.
CreatedBody(P, pollId) ==
    [id |-> pollId, question |-> P[pollId].question,
     options |-> P[pollId].options, status |-> P[pollId].status]

\* GET /api/polls/:pollId
GetHandler(P, O, pollId) ==
    IF getPollOrError(P, pollId).error THEN Outcome(P, O, NotFound)
    ELSE Outcome(P, O, Response(200, "undefined", "undefined"))

\* typeof optionIndex !== 'number' || optionIndex < 0 || optionIndex >= poll.options.length
InvalidOptionIndex(poll, optionIndex) ==
    \/ optionIndex.type # "number"
    \/ optionIndex.twice < 0
    \/ optionIndex.twice >= 2 * Len(poll.options)

\* voterId || req.ip
\* The network address used whether or not a voterId came with the request.
UniqueVoterId_AlwaysIp(voterId, ip) == ip

UniqueVoterId(voterId, ip) == IF voterId # "" THEN voterId ELSE ip

\* The duplicate check left out.
AlreadyVoted_Never(poll, uniqueVoterId) == FALSE

\* poll.voters.has(uniqueVoterId)
AlreadyVoted(poll, uniqueVoterId) == uniqueVoterId \in poll.voters

\* The vote appended to the array instead of counted in place.
IncrementVotes_Push(votes, optionIndex) == [votes EXCEPT !.items = Append(@, 1)]

\* poll.votes[optionIndex]++: an index of the array is incremented; any other
\* number names a new property of the array object, which becomes NaN.
IncrementVotes(votes, optionIndex) ==
    IF IsInteger(optionIndex) /\ optionIndex.twice \div 2 < Len(votes.items)
    THEN [votes EXCEPT !.items[optionIndex.twice \div 2 + 1] = @ + 1]
    ELSE [votes EXCEPT !.nan = @ \cup {optionIndex.twice}]

\* The count is incremented but the voter is not recorded.
RecordVote_VoterNotAdded(poll, optionIndex, uniqueVoterId) ==
    [poll EXCEPT !.votes = IncrementVotes(@, optionIndex)]

\* poll.votes[optionIndex]++; poll.voters.add(uniqueVoterId)
RecordVote(poll, optionIndex, uniqueVoterId) ==
    [poll EXCEPT !.votes = IncrementVotes(@, optionIndex),
                 !.voters = @ \cup {uniqueVoterId}]

\* The vote counted before the duplicate check, so that a repeated vote is
\* answered as a duplicate after the count went up.
VoteHandler_CountsBeforeDuplicateCheck(P, O, pollId, optionIndex, voterId, ip) ==
    IF getPollOrError(P, pollId).error THEN Outcome(P, O, NotFound)
    ELSE IF StatusOf(P, O, pollId) = "closed"
    THEN Outcome(P, O, Response(400, "This poll is closed. Voting is not allowed.", "undefined"))
    ELSE IF optionIndex.type # "number" \/ optionIndex.twice < 0
    THEN Outcome(P, O, Response(400, "Invalid option index", "undefined"))
    ELSE IF Lookup(P, pollId) = "inherited" THEN Outcome(P, O, ServerError)
    ELSE IF InvalidOptionIndex(P[pollId], optionIndex)
    THEN Outcome(P, O, Response(400, "Invalid option index", "undefined"))
    ELSE IF AlreadyVoted(P[pollId], UniqueVoterId(voterId, ip))
    THEN Outcome([P EXCEPT ![pollId].votes = IncrementVotes(@, optionIndex)], O,
                 Response(400, "You have already voted in this poll", "undefined"))
    ELSE Outcome([P EXCEPT ![pollId] = RecordVote(@, optionIndex, UniqueVoterId(voterId, ip))],
                 O, Response(200, "Vote recorded successfully", pollId))

\* POST /api/polls/:pollId/vote
VoteHandler(P, O, pollId, optionIndex, voterId, ip) ==
    IF getPollOrError(P, pollId).error THEN Outcome(P, O, NotFound)
    ELSE IF StatusOf(P, O, pollId) = "closed"
    THEN Outcome(P, O, Response(400, "This poll is closed. Voting is not allowed.", "undefined"))
    ELSE IF optionIndex.type # "number" \/ optionIndex.twice < 0
    THEN Outcome(P, O, Response(400, "Invalid option index", "undefined"))
    \* poll.options is undefined on an inherited object: reading .length throws
    ELSE IF Lookup(P, pollId) = "inherited" THEN Outcome(P, O, ServerError)
    ELSE IF InvalidOptionIndex(P[pollId], optionIndex)
    THEN Outcome(P, O, Response(400, "Invalid option index", "undefined"))
    ELSE IF AlreadyVoted(P[pollId], UniqueVoterId(voterId, ip))
    THEN Outcome(P, O, Response(400, "You have already voted in this poll", "undefined"))
    ELSE Outcome([P EXCEPT ![pollId] = RecordVote(@, optionIndex, UniqueVoterId(voterId, ip))],
                 O, Response(200, "Vote recorded successfully", pollId))

\* The percentage cut after one decimal instead of rounded.
ToFixed1_Truncated(votes, totalVotes) ==
    [type |-> "string", tenths |-> (1000 * votes) \div totalVotes]

\* Number.prototype.toFixed(1): the nearest number of tenths, as a string.
\* (votes / totalVotes) * 100 is kept in tenths of a percent.
ToFixed1(votes, totalVotes) ==
    [type |-> "string", tenths |-> (2000 * votes + totalVotes) \div (2 * totalVotes)]

\* totalVotes > 0 ? ((poll.votes[index] / totalVotes) * 100).toFixed(1) : 0
Percentage(votes, totalVotes) ==
    IF totalVotes > 0 THEN ToFixed1(votes, totalVotes)
    ELSE [type |-> "number", tenths |-> 0]

\* The body of Results' 200 response for a poll of the store.
ResultsBody(P, pollId) ==
    LET poll == P[pollId]
        totalVotes == Sum(poll.votes.items)
    IN  [ pollId |-> pollId,
          question |-> poll.question,
          status |-> poll.status,
          totalVotes |-> totalVotes,
          results |-> [index \in 1..Len(poll.options) |->
                         [option |-> poll.options[index],
                          votes |-> poll.votes.items[index],
                          percentage |-> Percentage(poll.votes.items[index], totalVotes)]],
          createdAt |-> poll.createdAt ]

\* GET /api/polls/:pollId/results
ResultsHandler(P, O, pollId) ==
    IF getPollOrError(P, pollId).error THEN Outcome(P, O, NotFound)
    \* poll.votes is undefined on an inherited object: calling .reduce throws
    ELSE IF Lookup(P, pollId) = "inherited" THEN Outcome(P, O, ServerError)
    ELSE Outcome(P, O, Response(200, "undefined", pollId))

\* The assignment left out.
ClosePoll_Forgotten(poll) == poll

\* poll.status = 'closed'
ClosePoll(poll) == [poll EXCEPT !.status = "closed"]

\* PUT /api/polls/:pollId/close
CloseHandler(P, O, pollId) ==
    IF getPollOrError(P, pollId).error THEN Outcome(P, O, NotFound)
    ELSE IF StatusOf(P, O, pollId) = "closed"
    THEN Outcome(P, O, Response(400, "Poll is already closed", "undefined"))
    ELSE IF Lookup(P, pollId) = "own"
    THEN Outcome([P EXCEPT ![pollId] = ClosePoll(@)], O,
                 Response(200, "Poll closed successfully", pollId))
    \* the assignment lands on the inherited object itself
    ELSE Outcome(P, [O EXCEPT ![pollId] = "closed"],
                 Response(200, "Poll closed successfully", pollId))

\* The `polls` list of List's 200 response: one summary per own property.
ListBody(P) ==
    { [id |-> P[pollId].id, question |-> P[pollId].question,
       status |-> P[pollId].status, totalVotes |-> Sum(P[pollId].votes.items),
       createdAt |-> P[pollId].createdAt] : pollId \in DOMAIN P }

\* GET /api/polls
ListHandler(P, O) == Outcome(P, O, Response(200, "undefined", "undefined"))

\* DELETE /api/polls/:pollId
DeleteHandler(P, O, pollId) ==
    IF getPollOrError(P, pollId).error THEN Outcome(P, O, NotFound)
    ELSE Outcome(Remove(P, pollId), O, Response(200, "Poll deleted successfully", pollId))

----------------------------------------------------------------------------
(* The sequential specification: requests are handled one at a time *)

Init ==
    /\ polls = [id \in {} |-> 0]
    /\ objectStatus = [k \in ProtoKeys |-> "undefined"]
    /\ now = 1
    /\ res = NoResponse
    /\ inflight = <<>>
    /\ replies = <<>>

Apply(out) ==
    /\ polls' = out.polls
    /\ objectStatus' = out.objectStatus
    /\ res' = out.res
    /\ UNCHANGED <<now, inflight, replies>>

\* The clock advances between requests.
Tick ==
    /\ now < MaxTime
    /\ now' = now + 1
    /\ UNCHANGED <<polls, objectStatus, res, inflight, replies>>

Create ==
    \E body \in CreateInputs, random \in RandomSuffixes :
        LET out == CreateHandler(polls, objectStatus, body.question, body.options, now, random)
        IN  /\ Cardinality(DOMAIN out.polls) <= MaxPolls
            /\ Apply(out)

Get == \E pollId \in PathIds : Apply(GetHandler(polls, objectStatus, pollId))

Vote ==
    \E pollId \in PathIds, optionIndex \in OptionIndexInputs,
       voterId \in VoterIdInputs, ip \in IpInputs :
        Apply(VoteHandler(polls, objectStatus, pollId, optionIndex, voterId, ip))

Results == \E pollId \in PathIds : Apply(ResultsHandler(polls, objectStatus, pollId))

Close == \E pollId \in PathIds : Apply(CloseHandler(polls, objectStatus, pollId))

List == Apply(ListHandler(polls, objectStatus))

Delete == \E pollId \in PathIds : Apply(DeleteHandler(polls, objectStatus, pollId))

Next == Tick \/ Create \/ Get \/ Vote \/ Results \/ Close \/ List \/ Delete

Spec == Init /\ [][Next]_vars

----------------------------------------------------------------------------
(* The concurrent specification: several requests on one poll are in flight *)
(* at once (their bodies are read asynchronously); the handlers run one    *)
(* after the other, each to completion, in any order.                      *)

EmptyStore == [id \in {} |-> 0]
CleanObjects == [k \in ProtoKeys |-> "undefined"]

\* The store after one successful Create.
ConcCreated ==
    CreateHandler(EmptyStore, CleanObjects, Str(<<"Q">>), ValidOptions, 1, "a")
ConcPollId == ConcCreated.res.pollId

VoteRequest(tag, pollId, optionIndex, voterId, ip) ==
    [op |-> "vote", tag |-> tag, pollId |-> pollId, optionIndex |-> optionIndex,
     voterId |-> voterId, ip |-> ip]
CloseRequest(tag, pollId) ==
    [op |-> "close", tag |-> tag, pollId |-> pollId, optionIndex |-> NotANumber,
     voterId |-> "", ip |-> ""]

InitConc ==
    /\ polls = ConcCreated.polls
    /\ objectStatus = ConcCreated.objectStatus
    /\ now = 1
    /\ res = ConcCreated.res
    /\ inflight = <<>>
    /\ replies = <<>>

Received == Len(inflight) + Len(replies)

ReceiveVote ==
    /\ Received < MaxRequests
    /\ \E optionIndex \in OptionIndexInputs, voterId \in VoterIdInputs, ip \in IpInputs :
         inflight' = Append(inflight,
                            VoteRequest(Received + 1, ConcPollId, optionIndex, voterId, ip))
    /\ UNCHANGED <<polls, objectStatus, now, res, replies>>

ReceiveClose ==
    /\ Received < MaxRequests
    /\ inflight' = Append(inflight, CloseRequest(Received + 1, ConcPollId))
    /\ UNCHANGED <<polls, objectStatus, now, res, replies>>

\* The route the request is dispatched to.
Dispatch(P, O, req) ==
    IF req.op = "vote"
    THEN VoteHandler(P, O, req.pollId, req.optionIndex, req.voterId, req.ip)
    ELSE CloseHandler(P, O, req.pollId)

Without(seq, i) == SubSeq(seq, 1, i - 1) \o SubSeq(seq, i + 1, Len(seq))

Handle(op) ==
    \E i \in 1..Len(inflight) :
        LET req == inflight[i]
            out == Dispatch(polls, objectStatus, req)
        IN  /\ req.op = op
            /\ polls' = out.polls
            /\ objectStatus' = out.objectStatus
            /\ res' = out.res
            /\ inflight' = Without(inflight, i)
            /\ replies' = Append(replies, [req |-> req, res |-> out.res])
            /\ UNCHANGED now

HandleVote == Handle("vote")
HandleClose == Handle("close")

NextConc == ReceiveVote \/ ReceiveClose \/ HandleVote \/ HandleClose

SpecConc == InitConc /\ [][NextConc]_vars

----------------------------------------------------------------------------
(* The creation specification: Create with every shape of body, on a clock *)
(* that stands still, and one voter                                        *)

\* question: a string or absent, as the route documents it
TypedQuestions ==
    { Undefined, Str(<<>>), Str(<<" ">>), Str(<<"Q">>), Str(<<" ", "Q", " ">>),
      Str(<<"R">>) }
\* options: anything that is not an array, or an array of strings
TypedOptions ==
    { NotAnArray,
      ArrayOf(<<>>),
      ArrayOf(<<Str(<<"A">>)>>),
      ArrayOf(<<Str(<<"A">>), Str(<<" ">>)>>),
      ArrayOf(<<Str(<<" ">>), Str(<<>>), Str(<<"B">>)>>),
      ArrayOf(<<Str(<<"A">>), Str(<<"B">>)>>),
      ValidOptions,
      ArrayOf(<<Str(<<"A">>), Str(<<"B">>), Str(<<"B">>), Str(<<>>)>>) }
UntypedOptions == { ArrayOf(<<Str(<<"A">>), NumberValue, Str(<<"B">>)>>) }

\* Request bodies of Create: three valid ones that store different polls, and one
\* for each way to fail.
CreateAnyInputs ==
    { CreateBody(Str(<<"Q">>), ArrayOf(<<Str(<<"A">>), Str(<<"B">>)>>)),
      CreateBody(Str(<<"R">>), ValidOptions),
      CreateBody(Str(<<" ", "Q", " ">>),
                 ArrayOf(<<Str(<<"A">>), Str(<<"B">>), Str(<<"B">>), Str(<<>>)>>)),
      CreateBody(Str(<<" ">>), ValidOptions),
      CreateBody(NumberValue, ValidOptions),
      CreateBody(Str(<<"Q">>), NotAnArray),
      CreateBody(Str(<<"Q">>), ArrayOf(<<Str(<<"A">>), Str(<<" ">>)>>)),
      CreateBody(Str(<<"Q">>), ArrayOf(<<Str(<<"A">>), NumberValue, Str(<<"B">>)>>)) }

CreateAny ==
    \E body \in CreateAnyInputs, random \in RandomSuffixes :
        LET out == CreateHandler(polls, objectStatus, body.question, body.options, now, random)
        IN  /\ Cardinality(DOMAIN out.polls) <= MaxPolls
            /\ Apply(out)

VoteOne ==
    \E pollId \in PathIds, optionIndex \in {Num(0), Num(1), Num(4)} :
        Apply(VoteHandler(polls, objectStatus, pollId, optionIndex, "alice", "10.0.0.1"))

NextCreate == CreateAny \/ Get \/ VoteOne \/ Results \/ Close \/ List \/ Delete

SpecCreate == Init /\ [][NextCreate]_vars

----------------------------------------------------------------------------
(* The results specification: one poll with three options collects up to
   MaxVoters votes, each from a new voter, and is read by Results. *)

MaxVoters == 16

TallyCreated ==
    CreateHandler(EmptyStore, CleanObjects, Str(<<"Q">>),
                  ArrayOf(<<Str(<<"A">>), Str(<<"B">>), Str(<<"C">>)>>), 1, "a")
TallyPollId == TallyCreated.res.pollId

InitTally ==
    /\ polls = TallyCreated.polls
    /\ objectStatus = TallyCreated.objectStatus
    /\ now = 1
    /\ res = TallyCreated.res
    /\ inflight = <<>>
    /\ replies = <<>>

\* The voterId of the next voter: one that has not voted yet.
NextVoterId == "v" \o ToString(Cardinality(polls[TallyPollId].voters) + 1)

VoteNext ==
    /\ Cardinality(polls[TallyPollId].voters) < MaxVoters
    /\ \E optionIndex \in {Num(0), Num(1), Num(2), Num(4)} :
         Apply(VoteHandler(polls, objectStatus, TallyPollId, optionIndex,
                           NextVoterId, "10.0.0.1"))

ResultsTally == Apply(ResultsHandler(polls, objectStatus, TallyPollId))

NextTally == VoteNext \/ ResultsTally

SpecResults == InitTally /\ [][NextTally]_vars

----------------------------------------------------------------------------
(* The voters specification: one poll, votes with and without a voterId from
   two addresses, and Close. *)

VoterIds == {"alice", "bob", ""}
Addresses == {"10.0.0.1", "10.0.0.2"}

VoteAs ==
    \E pollId \in {ConcPollId} \cup UnknownIds,
       optionIndex \in {Num(0), Num(2), Num(-2)},
       voterId \in VoterIds, ip \in Addresses :
        Apply(VoteHandler(polls, objectStatus, pollId, optionIndex, voterId, ip))

CloseVoted == Apply(CloseHandler(polls, objectStatus, ConcPollId))

NextVoters == VoteAs \/ CloseVoted

SpecVoters == InitConc /\ [][NextVoters]_vars

----------------------------------------------------------------------------
(* Properties *)

\* optionIndex is an integer in [0, len(options))
IntegerInRange(poll, optionIndex) ==
    /\ optionIndex.type = "number"
    /\ IsInteger(optionIndex)
    /\ 0 <= optionIndex.twice
    /\ optionIndex.twice < 2 * Len(poll.options)

DuplicateVote == Response(400, "You have already voted in this poll", "undefined")
InvalidIndex == Response(400, "Invalid option index", "undefined")
AlreadyClosed == Response(400, "Poll is already closed", "undefined")

VoteOutcome(pollId, optionIndex, voterId, ip) ==
    VoteHandler(polls, objectStatus, pollId, optionIndex, voterId, ip)

\* A fresh identity's vote for a valid index on an active poll adds 1 to that
\* option's count, changes no other count, and adds the identity to voters.
FreshVoteCounts ==
    \A pollId \in DOMAIN polls, optionIndex \in OptionIndexInputs,
       voterId \in VoterIdInputs, ip \in IpInputs :
        LET poll == polls[pollId]
            out == VoteOutcome(pollId, optionIndex, voterId, ip)
        IN  ( /\ UniqueVoterId(voterId, ip) \notin poll.voters
              /\ poll.status = "active"
              /\ IntegerInRange(poll, optionIndex) )
            => /\ out.res.status = 200
               /\ out.objectStatus = objectStatus
               /\ out.polls =
                    [polls EXCEPT
                       ![pollId].votes.items[optionIndex.twice \div 2 + 1] = @ + 1,
                       ![pollId].voters = @ \cup {UniqueVoterId(voterId, ip)}]

\* C1 as amended: a fresh vote counts once; every later Vote on the poll with an
\* identity already in voters fails with HTTP 400 and changes nothing, and the
\* error is the duplicate-vote error whenever the poll is still active and the
\* index passes the handler's index check (else the closed or the validation
\* error, which the handler checks first).
C1_OneVotePerIdentity ==
    /\ FreshVoteCounts
    /\ \A pollId \in DOMAIN polls, optionIndex \in OptionIndexInputs,
          voterId \in VoterIdInputs, ip \in IpInputs :
        LET poll == polls[pollId]
            out == VoteOutcome(pollId, optionIndex, voterId, ip)
        IN  UniqueVoterId(voterId, ip) \in poll.voters
            => /\ out.res.status = 400
               /\ out.polls = polls
               /\ out.objectStatus = objectStatus
               /\ ( poll.status = "active" /\ ~InvalidOptionIndex(poll, optionIndex)
                    => out.res = DuplicateVote )

\* C1 as stated: every later Vote with an identity already in voters fails with
\* the duplicate-vote error.
C1_RepeatIsAlwaysDuplicateError ==
    /\ FreshVoteCounts
    /\ \A pollId \in DOMAIN polls, optionIndex \in OptionIndexInputs,
          voterId \in VoterIdInputs, ip \in IpInputs :
        LET out == VoteOutcome(pollId, optionIndex, voterId, ip)
        IN  UniqueVoterId(voterId, ip) \in polls[pollId].voters
            => /\ out.res = DuplicateVote
               /\ out.polls = polls

\* A repeat vote has just been refused as a duplicate, in a store where some poll
\* holds an accepted vote.
C1_Witness ==
    /\ res = DuplicateVote
    /\ \E pollId \in DOMAIN polls :
         polls[pollId].voters # {} /\ Sum(polls[pollId].votes.items) > 0

\* C2: for every poll in the store, the sum of its votes equals the number of
\* entries in its voters set.
C2_SumOfVotesEqualsVoters ==
    \A pollId \in DOMAIN polls :
        Sum(polls[pollId].votes.items) = Cardinality(polls[pollId].voters)

\* C3: a Vote on an active poll of the store whose optionIndex is not an integer
\* in [0, len(options)) fails with the validation error and changes nothing.
C3_BadIndexRejected ==
    \A pollId \in DOMAIN polls, optionIndex \in OptionIndexInputs,
       voterId \in VoterIdInputs, ip \in IpInputs :
        LET poll == polls[pollId]
            out == VoteOutcome(pollId, optionIndex, voterId, ip)
        IN  (poll.status = "active" /\ ~IntegerInRange(poll, optionIndex))
            => /\ out.res = InvalidIndex
               /\ out.polls = polls

\* C4: once a poll is closed, no step changes its votes or its voters while the
\* id stays in the store.
C4_ClosedPollFrozen ==
    [][ \A pollId \in DOMAIN polls :
          (polls[pollId].status = "closed" /\ pollId \in DOMAIN polls')
          => /\ polls'[pollId].votes = polls[pollId].votes
             /\ polls'[pollId].voters = polls[pollId].voters ]_vars

\* C5: a poll id enters the store active, and no step makes a closed poll id
\* active again.
C5_StatusOnlyActiveToClosed ==
    [][ \A pollId \in DOMAIN polls' :
          IF pollId \in DOMAIN polls
          THEN polls[pollId].status = "closed" => polls'[pollId].status = "closed"
          ELSE polls'[pollId].status = "active" ]_vars

\* C6: Close on an active poll of the store succeeds and sets only its status,
\* to closed; Close on a closed poll fails with the already-closed error and
\* changes nothing.
C6_CloseOnce ==
    \A pollId \in DOMAIN polls :
        LET out == CloseHandler(polls, objectStatus, pollId)
        IN  /\ out.objectStatus = objectStatus
            /\ polls[pollId].status = "active"
               => /\ out.res = Response(200, "Poll closed successfully", pollId)
                  /\ out.polls = [polls EXCEPT ![pollId].status = "closed"]
            /\ polls[pollId].status = "closed"
               => /\ out.res = AlreadyClosed
                  /\ out.polls = polls
                  /\ CloseHandler(out.polls, out.objectStatus, pollId).res = AlreadyClosed

\* A second Close has just been refused on a closed poll of the store (no
\* inherited object has been closed, so the refusal was about a poll).
C6_Witness ==
    /\ res = AlreadyClosed
    /\ objectStatus = CleanObjects
    /\ \E pollId \in DOMAIN polls : polls[pollId].status = "closed"

\* The five operations that take a poll id, applied to store P.
AllNotFound(P, O, pollId) ==
    /\ GetHandler(P, O, pollId).res = NotFound
    /\ ResultsHandler(P, O, pollId).res = NotFound
    /\ CloseHandler(P, O, pollId).res = NotFound
    /\ DeleteHandler(P, O, pollId).res = NotFound
    /\ \A optionIndex \in OptionIndexInputs, voterId \in VoterIdInputs, ip \in IpInputs :
         VoteHandler(P, O, pollId, optionIndex, voterId, ip).res = NotFound

\* C7: after a successful Delete of a poll's id, that id is absent from the store
\* and Get, Vote, Results, Close and Delete on it answer 404, also after the
\* next request has been handled.
C7_DeletedStaysNotFound ==
    [][ (res.message = "Poll deleted successfully" /\ res.pollId \in GeneratedIds)
        => /\ res.pollId \notin DOMAIN polls
           /\ AllNotFound(polls, objectStatus, res.pollId)
           /\ res.pollId \notin DOMAIN polls'
           /\ AllNotFound(polls', objectStatus', res.pollId) ]_vars

\* C8: a successful Create (a step that answers 201; the clock step answers
\* nothing) adds one poll under an id no poll of the store has and leaves every
\* poll of the store as it was.
C8_CreateNeverReusesId ==
    [][ (res'.message = "Poll created successfully" /\ now' = now)
        => /\ res'.pollId \notin DOMAIN polls
           /\ DOMAIN polls' = DOMAIN polls \cup {res'.pollId}
           /\ \A pollId \in DOMAIN polls : polls'[pollId] = polls[pollId] ]_vars

\* C9: for every id string that names no poll of the store, Get, Vote, Results,
\* Close and Delete answer 404 and change nothing.
C9_UnknownIdNotFound ==
    \A pollId \in PathIds \ DOMAIN polls :
        /\ AllNotFound(polls, objectStatus, pollId)
        /\ CloseHandler(polls, objectStatus, pollId).objectStatus = objectStatus
        /\ DeleteHandler(polls, objectStatus, pollId).polls = polls

\* The requests handled so far, by kind and by answer.
VoteReplies == { i \in 1..Len(replies) : replies[i].req.op = "vote" }
CloseReplies == { i \in 1..Len(replies) : replies[i].req.op = "close" }
AcceptedVotes == { i \in VoteReplies : replies[i].res.status = 200 }
AcceptedCloses == { i \in CloseReplies : replies[i].res.status = 200 }
IdentityOf(i) == UniqueVoterId(replies[i].req.voterId, replies[i].req.ip)

\* The store after the handlers ran one after the other on `reqs`, in order.
RECURSIVE SerialRun(_, _, _)
SerialRun(P, O, reqs) ==
    IF reqs = <<>> THEN Outcome(P, O, NoResponse)
    ELSE LET out == Dispatch(P, O, Head(reqs))
         IN  SerialRun(out.polls, out.objectStatus, Tail(reqs))

\* C10: under any interleaving of the requests in flight on one poll, the store
\* is the one a serial run of the handled requests gives; a vote is accepted
\* exactly when, in that order, the poll is not yet closed, the index passes
\* the check and no earlier accepted vote has its identity (so two votes of
\* distinct identities both succeed and, of two with one identity, one does);
\* each accepted vote for an option is counted once; one Close at most succeeds.
C10_HandlersAreAtomic ==
    LET poll == polls[ConcPollId]
    IN  /\ polls = SerialRun(ConcCreated.polls, ConcCreated.objectStatus,
                             [i \in 1..Len(replies) |-> replies[i].req]).polls
        /\ \A i \in VoteReplies :
             (replies[i].res.status = 200)
             <=> /\ ~\E j \in AcceptedCloses : j < i
                 /\ ~InvalidOptionIndex(poll, replies[i].req.optionIndex)
                 /\ ~\E j \in AcceptedVotes : j < i /\ IdentityOf(j) = IdentityOf(i)
        /\ \A i, j \in AcceptedVotes : IdentityOf(i) = IdentityOf(j) => i = j
        /\ poll.voters = { IdentityOf(i) : i \in AcceptedVotes }
        /\ \A k \in 1..Len(poll.options) :
             poll.votes.items[k] =
               Cardinality({ i \in AcceptedVotes :
                               replies[i].req.optionIndex = Num(2 * (k - 1)) })
        /\ \A i \in CloseReplies :
             (replies[i].res.status = 200) <=> ~\E j \in AcceptedCloses : j < i
        /\ Cardinality(AcceptedCloses) <= 1
        /\ poll.status = "closed" <=> AcceptedCloses # {}

\* Two votes of one identity were in flight together (the one that arrived later
\* was handled first): the first handled was accepted, the other refused as a
\* duplicate; and two votes of distinct identities were both accepted.
C10_Witness ==
    /\ Len(replies) = 3
    /\ replies[1].req.tag > replies[2].req.tag
    /\ {1, 2, 3} \subseteq VoteReplies
    /\ IdentityOf(1) = IdentityOf(2) /\ IdentityOf(3) # IdentityOf(1)
    /\ replies[1].res.status = 200
    /\ replies[2].res = DuplicateVote
    /\ replies[3].res.status = 200
    /\ Sum(polls[ConcPollId].votes.items) = 2

\* The entries of an options array that are non-empty after trimming.
NonEmptyAfterTrim(options) ==
    { i \in 1..Len(options.items) : Trim(options.items[i].chars) # <<>> }

CreateOutcome(question, options, random) ==
    CreateHandler(polls, objectStatus, question, options, now, random)

\* C11: Create with an empty or whitespace-only question, or with options that
\* are not a sequence of at least 2 entries, or with fewer than 2 options left
\* after trimming each and discarding the empty ones, fails with HTTP 400 and
\* adds no poll to the store.
C11_InvalidCreateRejected ==
    \A question \in TypedQuestions, options \in TypedOptions, random \in RandomSuffixes :
        LET out == CreateOutcome(question, options, random)
        IN  ( \/ Trim(question.chars) = <<>>
              \/ ~options.isArray
              \/ Len(options.items) < 2
              \/ Cardinality(NonEmptyAfterTrim(options)) < 2 )
            => /\ out.res.status = 400
               /\ out.polls = polls
               /\ out.objectStatus = objectStatus

\* A Create has just been refused for its options, with a poll in the store.
C11_Witness ==
    /\ res = Response(400, "At least 2 non-empty options are required", "undefined")
    /\ DOMAIN polls # {}

\* The input options each trimmed, the empty ones discarded, in input order.
RECURSIVE TrimmedNonEmpty(_)
TrimmedNonEmpty(items) ==
    IF items = <<>> THEN <<>>
    ELSE IF Trim(Head(items).chars) # <<>>
         THEN <<Trim(Head(items).chars)>> \o TrimmedNonEmpty(Tail(items))
         ELSE TrimmedNonEmpty(Tail(items))

\* C12: the options a created poll stores are exactly the input options each
\* trimmed of surrounding whitespace, with the empty ones discarded, in input
\* order, duplicates retained.
C12_StoredOptionsTrimmed ==
    \A question \in TypedQuestions, options \in TypedOptions, random \in RandomSuffixes :
        LET out == CreateOutcome(question, options, random)
        IN  out.res.status = 201
            => out.polls[out.res.pollId].options = TrimmedNonEmpty(options.items)

\* C13: for every question that is non-empty after trimming and every options
\* sequence with at least 2 entries non-empty after trimming, Create answers 201
\* and the new poll is active, has no voters, and has one zero count for each of
\* its stored options, as the Results of the new id show.
C13_ValidCreateSucceeds ==
    \A question \in TypedQuestions, options \in TypedOptions, random \in RandomSuffixes :
        LET out == CreateOutcome(question, options, random)
            pollId == generatePollId(now, random)
        IN  ( /\ Trim(question.chars) # <<>>
              /\ options.isArray
              /\ Cardinality(NonEmptyAfterTrim(options)) >= 2 )
            => /\ out.res = Response(201, "Poll created successfully", pollId)
               /\ pollId \in DOMAIN out.polls
               /\ out.polls[pollId].status = "active"
               /\ out.polls[pollId].voters = {}
               /\ Len(out.polls[pollId].options) = Cardinality(NonEmptyAfterTrim(options))
               /\ out.polls[pollId].votes =
                    [items |-> [i \in 1..Len(out.polls[pollId].options) |-> 0], nan |-> {}]
               /\ CreatedBody(out.polls, pollId).status = "active"
               /\ LET view == ResultsBody(out.polls, pollId)
                  IN  /\ ResultsHandler(out.polls, out.objectStatus, pollId).res.status = 200
                      /\ view.status = "active"
                      /\ view.totalVotes = 0
                      /\ Len(view.results) = Len(out.polls[pollId].options)
                      /\ \A i \in 1..Len(view.results) : view.results[i].votes = 0

\* A Create has just succeeded with three options left of four, and the new poll
\* is as created.
C13_Witness ==
    /\ res.message = "Poll created successfully"
    /\ res.pollId \in DOMAIN polls
    /\ Len(polls[res.pollId].options) = 3
    /\ polls[res.pollId].votes.items = <<0, 0, 0>>
    /\ polls[res.pollId].status = "active"

\* C14: every poll of the store has as many counts as options, and no step other
\* than the Create that (re)creates an id changes the question or the options
\* held under that id.
C14_OptionsAndCountsAligned ==
    /\ [](\A pollId \in DOMAIN polls :
            Len(polls[pollId].votes.items) = Len(polls[pollId].options))
    /\ [][ \A pollId \in DOMAIN polls \cap DOMAIN polls' :
             (res'.message # "Poll created successfully" \/ res'.pollId # pollId)
             => /\ polls'[pollId].question = polls[pollId].question
                /\ polls'[pollId].options = polls[pollId].options ]_vars

\* Two polls with different questions and option lists are in the store, one of
\* them voted in and closed.
C14_Witness ==
    \E p, q \in DOMAIN polls :
        /\ polls[p].question # polls[q].question
        /\ Len(polls[p].options) # Len(polls[q].options)
        /\ Sum(polls[p].votes.items) > 0
        /\ polls[p].status = "closed"

\* The store with every count set to zero and every voters set emptied.
Scrub(P) ==
    [pollId \in DOMAIN P |->
        [P[pollId] EXCEPT !.votes = [items |-> [i \in 1..Len(@.items) |-> 0], nan |-> {}],
                          !.voters = {}]]

\* The store with each poll's counts replaced by their total, the voters emptied.
Collapse(P) ==
    [pollId \in DOMAIN P |->
        [P[pollId] EXCEPT !.votes = [items |-> <<Sum(@.items)>>, nan |-> {}],
                          !.voters = {}]]

\* The ids Get answers 200 for.
Found(P) == { pollId \in PathIds : ~getPollOrError(P, pollId).error }

GetIgnoresVotes ==
    /\ Found(Scrub(polls)) = Found(polls)
    /\ \A pollId \in PathIds :
         GetHandler(Scrub(polls), objectStatus, pollId).res
           = GetHandler(polls, objectStatus, pollId).res
    /\ \A pollId \in Found(polls) :
         GetBody(Scrub(polls), objectStatus, pollId) = GetBody(polls, objectStatus, pollId)
    /\ \A pollId \in DOMAIN polls :
         CreatedBody(Scrub(polls), pollId) = CreatedBody(polls, pollId)

\* C15 as amended: the responses of Create and Get are the same for two stores
\* that differ only in votes and voters; the response of List is the same for
\* two stores that differ only in voters and in how each poll's total is spread
\* over its options: it reports each poll's totalVotes = sum(votes).
C15_GetIgnoresVotesListShowsTotals ==
    /\ GetIgnoresVotes
    /\ ListBody(Collapse(polls)) = ListBody(polls)
    /\ \A pollId \in DOMAIN polls :
         \E summary \in ListBody(polls) :
            summary.id = pollId /\ summary.totalVotes = Sum(polls[pollId].votes.items)

\* C15 as stated: Get and List answer the same for two stores that differ only
\* in votes and voters.
C15_ReadsIgnoreVotes ==
    /\ GetIgnoresVotes
    /\ ListBody(Scrub(polls)) = ListBody(polls)

\* A read has just been answered from a store in which a poll holds a vote.
C15_Witness ==
    /\ res = Response(200, "undefined", "undefined")
    /\ \E pollId \in DOMAIN polls :
         Sum(polls[pollId].votes.items) > 0 /\ polls[pollId].voters # {}

Abs(x) == IF x < 0 THEN -x ELSE x

RECURSIVE SumTenths(_)
SumTenths(results) ==
    IF results = <<>> THEN 0
    ELSE Head(results).percentage.tenths + SumTenths(Tail(results))

\* C16: for every poll, Results reports totalVotes = sum(votes) and, per option
\* in option order, the option's count and a percentage within 0.05 of
\* votes[i] / totalVotes * 100 with one decimal when totalVotes > 0, and 0 when
\* totalVotes = 0; so the percentages sum to 100.0 within 0.05 per option when
\* totalVotes > 0.  Percentages are in tenths of a percent.
C16_ResultsPercentages ==
    \A pollId \in DOMAIN polls :
        LET poll == polls[pollId]
            view == ResultsBody(polls, pollId)
            total == Sum(poll.votes.items)
            n == Len(poll.options)
        IN  /\ ResultsHandler(polls, objectStatus, pollId).res.status = 200
            /\ view.totalVotes = total
            /\ Len(view.results) = n
            /\ \A i \in 1..n :
                 /\ view.results[i].option = poll.options[i]
                 /\ view.results[i].votes = poll.votes.items[i]
                 /\ IF total > 0
                    THEN 2 * Abs(view.results[i].percentage.tenths * total
                                 - 1000 * poll.votes.items[i]) <= total
                    ELSE view.results[i].percentage.tenths = 0
            /\ total > 0 => 2 * Abs(SumTenths(view.results) - 1000) <= n

\* Results has just been read from a poll of 16 votes spread 1, 5, 10: the
\* percentages 6.3, 31.3 and 62.5 sum to 100.1.
C16_Witness ==
    /\ res = ResultsHandler(polls, objectStatus, TallyPollId).res
    /\ polls[TallyPollId].votes.items = <<1, 5, 10>>
    /\ SumTenths(ResultsBody(polls, TallyPollId).results) = 1001

ClosedError == Response(400, "This poll is closed. Voting is not allowed.", "undefined")

\* C17: Vote reports the first failure that applies, in the order poll not
\* found (404), poll closed, option index not an integer in [0, len(options)),
\* voter already voted; a Vote on a closed poll answers the closed error for
\* every identity and every option index.
C17_VoteFailureOrder ==
    \A pollId \in DOMAIN polls \cup UnknownIds, optionIndex \in OptionIndexInputs,
       voterId \in VoterIdInputs, ip \in IpInputs :
        LET out == VoteOutcome(pollId, optionIndex, voterId, ip)
        IN  IF pollId \notin DOMAIN polls THEN out.res = NotFound
            ELSE IF polls[pollId].status = "closed" THEN out.res = ClosedError
            ELSE IF ~IntegerInRange(polls[pollId], optionIndex) THEN out.res = InvalidIndex
            ELSE IF UniqueVoterId(voterId, ip) \in polls[pollId].voters
                 THEN out.res = DuplicateVote
            ELSE out.res.status = 200

\* Two votes in a row on the current store: the second handled on the store the
\* first one left.
VoteTwice(pollId, first, second) ==
    LET out1 == VoteHandler(polls, objectStatus, pollId, first.optionIndex,
                            first.voterId, first.ip)
        out2 == VoteHandler(out1.polls, out1.objectStatus, pollId, second.optionIndex,
                            second.voterId, second.ip)
    IN  [first |-> out1, second |-> out2]

Ballot(optionIndex, voterId, ip) ==
    [optionIndex |-> optionIndex, voterId |-> voterId, ip |-> ip]

\* C18: the identity Vote deduplicates on is the voterId when one is supplied
\* and the network address only when it is absent.  On an active poll, with valid
\* option indexes: two votes with distinct supplied voterIds not yet in voters
\* are both accepted, from the same address or not; a supplied voterId's second
\* vote is a duplicate from any address; of two votes without voterId the second
\* is a duplicate when it comes from the same address and is accepted when it
\* comes from another address that has not voted.
C18_IdentityIsVoterIdElseAddress ==
    \A pollId \in DOMAIN polls, i \in {Num(0), Num(2)}, j \in {Num(0), Num(2)},
       a \in VoterIds, b \in VoterIds, ip1 \in Addresses, ip2 \in Addresses :
        LET poll == polls[pollId]
            two == VoteTwice(pollId, Ballot(i, a, ip1), Ballot(j, b, ip2))
            accepted1 == two.first.res.status = 200
            accepted2 == two.second.res.status = 200
        IN  poll.status = "active" =>
            /\ (a # "" /\ b # "" /\ a # b /\ a \notin poll.voters /\ b \notin poll.voters)
               => /\ accepted1 /\ accepted2
                  /\ two.second.polls[pollId].voters = poll.voters \cup {a, b}
                  /\ Sum(two.second.polls[pollId].votes.items) = Sum(poll.votes.items) + 2
            /\ (a # "" /\ a = b /\ a \notin poll.voters)
               => /\ accepted1
                  /\ two.second.res = DuplicateVote
                  /\ two.second.polls = two.first.polls
            /\ (a = "" /\ b = "" /\ ip1 = ip2 /\ ip1 \notin poll.voters)
               => /\ accepted1
                  /\ two.second.res = DuplicateVote
                  /\ two.second.polls = two.first.polls
            /\ (a = "" /\ b = "" /\ ip1 # ip2 /\ ip1 \notin poll.voters /\ ip2 \notin poll.voters)
               => /\ accepted1 /\ accepted2
                  /\ two.second.polls[pollId].voters = poll.voters \cup {ip1, ip2}

\* alice and bob have voted from one address, a vote without voterId from that
\* address was accepted, and another such vote has just failed as a duplicate.
C18_Witness ==
    /\ polls[ConcPollId].voters = {"alice", "bob", "10.0.0.1"}
    /\ Sum(polls[ConcPollId].votes.items) = 3
    /\ res = DuplicateVote

\* Every poll of the store other than the one named is in P2 as it was.
OthersUnchanged(pollId, P2) ==
    \A other \in DOMAIN polls \ {pollId} :
        other \in DOMAIN P2 /\ P2[other] = polls[other]

\* C19: Vote, Close and Delete on one id leave every other poll of the store as
\* it was (question, options, votes, voters, status), and an identity in one
\* poll's voters is still accepted once, with a valid index, in every other
\* active poll it has not voted in.
C19_OtherPollsUntouched ==
    /\ \A pollId \in PathIds :
         /\ \A optionIndex \in OptionIndexInputs, voterId \in VoterIdInputs, ip \in IpInputs :
              OthersUnchanged(pollId, VoteOutcome(pollId, optionIndex, voterId, ip).polls)
         /\ OthersUnchanged(pollId, CloseHandler(polls, objectStatus, pollId).polls)
         /\ OthersUnchanged(pollId, DeleteHandler(polls, objectStatus, pollId).polls)
    /\ \A p \in DOMAIN polls, q \in DOMAIN polls, voterId \in VoterIdInputs, ip \in IpInputs :
         LET identity == IF voterId # "" THEN voterId ELSE ip
             two == VoteTwice(q, Ballot(Num(0), voterId, ip), Ballot(Num(2), voterId, ip))
         IN  ( /\ p # q
               /\ identity \in polls[p].voters
               /\ identity \notin polls[q].voters
               /\ polls[q].status = "active" )
             => /\ two.first.res.status = 200
                /\ two.first.polls[q].voters = polls[q].voters \cup {identity}
                /\ two.second.res = DuplicateVote
                /\ two.second.polls[p] = polls[p]

\* alice has one accepted vote in each of two polls of the store, and one of
\* the two has been closed.
C19_Witness ==
    \E p, q \in DOMAIN polls :
        /\ p # q
        /\ polls[p].voters = {"alice"} /\ polls[p].votes.items[1] = 1
        /\ polls[q].voters = {"alice"} /\ polls[q].votes.items[1] = 1
        /\ polls[p].status = "closed" /\ polls[q].status = "active"

Unchanged(out) == out.polls = polls /\ out.objectStatus = objectStatus

IsError(out) == out.res.status \in {400, 404, 500}

\* C20: every operation that answers 400, 404 or 500 leaves the whole store as
\* it was, and so does every Get, Results and List whatever it answers.
C20_ErrorsAndReadsChangeNothing ==
    /\ \A body \in CreateInputs \cup CreateAnyInputs, random \in RandomSuffixes :
         LET out == CreateOutcome(body.question, body.options, random)
         IN  IsError(out) => Unchanged(out)
    /\ \A pollId \in PathIds :
         /\ \A optionIndex \in OptionIndexInputs, voterId \in VoterIdInputs, ip \in IpInputs :
              LET out == VoteOutcome(pollId, optionIndex, voterId, ip)
              IN  IsError(out) => Unchanged(out)
         /\ LET out == CloseHandler(polls, objectStatus, pollId)
            IN  IsError(out) => Unchanged(out)
         /\ LET out == DeleteHandler(polls, objectStatus, pollId)
            IN  IsError(out) => Unchanged(out)
         /\ Unchanged(GetHandler(polls, objectStatus, pollId))
         /\ Unchanged(ResultsHandler(polls, objectStatus, pollId))
    /\ Unchanged(ListHandler(polls, objectStatus))

\* A request has just been answered 500 by a store that holds a closed poll with
\* a vote in it.
C20_Witness ==
    /\ res = ServerError
    /\ \E pollId \in DOMAIN polls :
         polls[pollId].status = "closed" /\ polls[pollId].voters # {}
====
